---- MODULE Spec2Model ----
(***************************************************************************)
(* Country Currency & Exchange API (countries/services.py, views.py,       *)
(* utils.py): the refresh/upsert routine, the list/get/delete views and    *)
(* the summary image, as a state machine over the Country table.           *)
(*                                                                         *)
(* Text that the code case-folds or strips (name, region, currency code)   *)
(* is a sequence of one-character strings; money is an integer number of   *)
(* cents (Decimal quantized to 0.01); an optional value is <<>> (None /    *)
(* SQL NULL) or <<v>>; a JSON object is a function whose DOMAIN is the set *)
(* of keys that are present.                                               *)
(***************************************************************************)
EXTENDS Integers, Sequences, FiniteSets, TLC

VARIABLES
    store,      \* the Country table: a set of rows
    nextId,     \* the next primary key the table hands out
    now,        \* the wall clock read by timezone.now()
    image,      \* cache/summary.png: <<>> while absent, <<content>> once written
    request,    \* the request handled last, with what its collaborators returned
    response,   \* the response to that request
    written,    \* the upserts of the refresh handled last, in loop order
    inflight    \* per worker, the refresh it is running next to the other's

vars == <<store, nextId, now, image, request, response, written, inflight>>

----------------------------------------------------------------------------
(* Bounds *)

MaxBatch == 2   \* longest upstream country list
MaxTime  == 1   \* last clock value
MaxId    == 2   \* last primary key the table hands out

----------------------------------------------------------------------------
(* Optional values and text *)

Null == <<>>
Some(v) == <<v>>
IsNull(o) == o = <<>>
Val(o) == o[1]

\* dict.get(key, default)
DictGet(d, k, default) == IF k \in DOMAIN d THEN d[k] ELSE default

LowerChar(c) ==
    CASE c = "N" -> "n"
      [] c = "G" -> "g"
      [] c = "H" -> "h"
      [] c = "A" -> "a"
      [] c = "F" -> "f"
      [] c = "Z" -> "z"
      [] OTHER -> c

\* case folding as the __iexact lookups apply it
Lower(s) == [i \in 1..Len(s) |-> LowerChar(s[i])]

IsSpace(c) == c = " "

RECURSIVE LStrip(_)
LStrip(s) == IF s # <<>> /\ IsSpace(Head(s)) THEN LStrip(Tail(s)) ELSE s

RECURSIVE RStrip(_)
RStrip(s) ==
    IF s # <<>> /\ IsSpace(s[Len(s)]) THEN RStrip(SubSeq(s, 1, Len(s) - 1)) ELSE s

\* str.strip()
Strip(s) == RStrip(LStrip(s))

\* name__iexact, region__iexact, currency_code__iexact
IExact(a, b) == Lower(a) = Lower(b)

----------------------------------------------------------------------------
(* The upstream APIs: what fetch_countries and fetch_exchange_rates return *)

Nigeria == <<"N", "g">>
Ghana   == <<"G", "h">>
NGN == <<"N", "G", "N">>
GHS == <<"G", "H", "S">>
Africa == <<"A", "f">>

\* One JSON object of the country list. A key that is left out of the record
\* is absent from the JSON object.
CountryEntries ==
    { [name |-> Some(Nigeria), capital |-> Some("Abuja"), region |-> Some(Africa),
       population |-> 1, flag |-> Some("ng.svg"),
       currencies |-> << [code |-> NGN], [code |-> GHS] >>],
      [name |-> Some(<<" ">> \o Lower(Nigeria) \o <<" ">>), capital |-> Some("Lagos"),
       region |-> Null, flag |-> Null],
      [name |-> Some(Ghana), capital |-> Some("Accra"), region |-> Some(Lower(Africa)),
       population |-> 3, flag |-> Some("gh.svg"), currencies |-> << [code |-> GHS] >>],
      [name |-> Some(<<" ">>), capital |-> Null, region |-> Null, population |-> 1,
       flag |-> Null, currencies |-> << [code |-> NGN] >>],
      [name |-> Null, capital |-> Null, region |-> Null, population |-> 1,
       flag |-> Null, currencies |-> << >>] }

\* the sequences of at most n elements of S that hold no element twice
RECURSIVE SeqsUpTo(_, _)
SeqsUpTo(S, n) ==
    IF n = 0 THEN {<<>>}
    ELSE LET shorter == SeqsUpTo(S, n - 1)
         IN  shorter \cup
             UNION {{Append(q, e) : e \in S \ {q[i] : i \in 1..Len(q)}}
                    : q \in {x \in shorter : Len(x) = n - 1}}

\* response.json() of the country API: no JSON object comes twice, but one
\* country may come in two spellings
CountryLists == SeqsUpTo(CountryEntries, MaxBatch)

\* data.get('rates', {}) of the exchange-rate API: rates in local units per USD
RateTables ==
    { [c \in {NGN} |-> 3],
      [c \in {NGN} |-> 0] }

\* random.uniform(1000, 2000) in units of 1/MultiplierScale
MultiplierScale == 1000
Multipliers == {1000001, 1500000}

----------------------------------------------------------------------------
(* CountryService *)

\* Decimal.quantize(Decimal('0.01')) of num/den, in cents: the decimal
\* context's default rounding, ROUND_HALF_EVEN
QuantizeCents(num, den) ==
    LET q == (100 * num) \div den
        r == (100 * num) % den
    IN  IF 2 * r > den \/ (2 * r = den /\ q % 2 = 1) THEN q + 1 ELSE q

\* calculate_estimated_gdp multiplying by the rate instead of dividing
calculate_estimated_gdp_Times(population, exchange_rate, multiplier) ==
    IF IsNull(exchange_rate) \/ Val(exchange_rate) = 0
    THEN Null
    ELSE Some(QuantizeCents(population * multiplier * Val(exchange_rate),
                            MultiplierScale))

\* calculate_estimated_gdp, with the value random.uniform returned as a parameter
calculate_estimated_gdp(population, exchange_rate, multiplier) ==
    IF IsNull(exchange_rate) \/ Val(exchange_rate) = 0
    THEN Null
    ELSE Some(QuantizeCents(population * multiplier,
                            MultiplierScale * Val(exchange_rate)))

extract_currency_code(currencies) ==
    IF currencies = <<>> THEN Null
    ELSE IF "code" \in DOMAIN currencies[1] THEN Some(currencies[1].code) ELSE Null

\* lines 160-165: the rate of the entry's currency, None when the code is
\* missing, unknown to the table or has a zero rate
LookupRate(currency_code, exchange_rates) ==
    IF IsNull(currency_code) \/ Val(currency_code) = <<>> THEN Null
    ELSE IF Val(currency_code) \notin DOMAIN exchange_rates THEN Null
    ELSE IF exchange_rates[Val(currency_code)] = 0 THEN Null
    ELSE Some(exchange_rates[Val(currency_code)])

\* whether line 168 draws a random multiplier for this entry
DrawsMultiplier(country_data, exchange_rates) ==
    /\ "name" \in DOMAIN country_data
    /\ ~IsNull(country_data.name)
    /\ ~IsNull(LookupRate(extract_currency_code(DictGet(country_data, "currencies", <<>>)),
                          exchange_rates))

\* the defaults dictionary of lines 173-183
Defaults(country_data, exchange_rates, multiplier, refresh_time) ==
    LET name == Strip(Val(DictGet(country_data, "name", Some(<<>>))))
        population == DictGet(country_data, "population", 0)
        currency_code == extract_currency_code(DictGet(country_data, "currencies", <<>>))
        exchange_rate == LookupRate(currency_code, exchange_rates)
        estimated_gdp == calculate_estimated_gdp(population, exchange_rate, multiplier)
    IN  [name |-> name,
         capital |-> DictGet(country_data, "capital", Null),
         region |-> DictGet(country_data, "region", Null),
         population |-> population,
         currency_code |-> currency_code,
         exchange_rate |-> exchange_rate,
         estimated_gdp |-> IF IsNull(estimated_gdp) \/ Val(estimated_gdp) = 0
                           THEN Some(0) ELSE estimated_gdp,
         flag_url |-> DictGet(country_data, "flag", Null),
         last_refreshed_at |-> refresh_time]

WithId(id, fields) ==
    [id |-> id, name |-> fields.name, capital |-> fields.capital,
     region |-> fields.region, population |-> fields.population,
     currency_code |-> fields.currency_code, exchange_rate |-> fields.exchange_rate,
     estimated_gdp |-> fields.estimated_gdp, flag_url |-> fields.flag_url,
     last_refreshed_at |-> fields.last_refreshed_at]

\* the lookup with name= in place of name__iexact=
ByNameExact(rows, name) == {r \in rows : r.name = name}

\* Country.objects.filter(name__iexact=name)
ByName(rows, name) == {r \in rows : IExact(r.name, name)}

\* Country.objects.create(**defaults) in place of update_or_create
update_or_create_Creates(db, name, defaults) ==
    LET row == WithId(db.nextId, defaults)
    IN  [rows |-> db.rows \cup {row}, nextId |-> db.nextId + 1,
         row |-> <<row>>, created |-> TRUE, error |-> FALSE]

\* update_or_create with defaults that leave the name out: a row that is
\* matched keeps the casing it has
update_or_create_KeepsName(db, name, defaults) ==
    LET found == {r \in db.rows : IExact(r.name, name)}
    IN  IF Cardinality(found) > 1
        THEN [rows |-> db.rows, nextId |-> db.nextId, row |-> <<>>, created |-> FALSE,
              error |-> TRUE]
        ELSE IF found = {}
        THEN LET row == WithId(db.nextId, defaults)
             IN  [rows |-> db.rows \cup {row}, nextId |-> db.nextId + 1,
                  row |-> <<row>>, created |-> TRUE, error |-> FALSE]
        ELSE LET old == CHOOSE r \in found : TRUE
                 row == [WithId(old.id, defaults) EXCEPT !.name = old.name]
             IN  [rows |-> (db.rows \ {old}) \cup {row}, nextId |-> db.nextId,
                  row |-> <<row>>, created |-> FALSE, error |-> FALSE]

\* Country.objects.update_or_create(name__iexact=name, defaults=defaults) on the
\* table db = [rows, nextId]: the table afterwards, the row saved and `created`;
\* error is set when the lookup matches several rows (MultipleObjectsReturned)
update_or_create(db, name, defaults) ==
    LET found == ByName(db.rows, name)
    IN  IF Cardinality(found) > 1
        THEN [rows |-> db.rows, nextId |-> db.nextId, row |-> <<>>, created |-> FALSE,
              error |-> TRUE]
        ELSE IF found = {}
        THEN LET row == WithId(db.nextId, defaults)
             IN  [rows |-> db.rows \cup {row}, nextId |-> db.nextId + 1,
                  row |-> <<row>>, created |-> TRUE, error |-> FALSE]
        ELSE LET old == CHOOSE r \in found : TRUE
                 row == WithId(old.id, defaults)
             IN  [rows |-> (db.rows \ {old}) \cup {row}, nextId |-> db.nextId,
                  row |-> <<row>>, created |-> FALSE, error |-> FALSE]

\* The loop of refresh_countries (lines 145-189) from entry i on. run carries
\* the table, the counters, the upserts made so far and whether an exception
\* has ended the loop; multipliers[i] is the random draw for entry i.
RECURSIVE ProcessCountries(_, _, _, _, _, _)
ProcessCountries(run, countries_data, exchange_rates, multipliers, refresh_time, i) ==
    IF i > Len(countries_data) \/ run.error THEN run
    ELSE LET country_data == countries_data[i]
             raw == DictGet(country_data, "name", Some(<<>>))
         IN  IF IsNull(raw)
             \* None has no strip(): AttributeError
             THEN [run EXCEPT !.error = TRUE]
             ELSE IF Strip(Val(raw)) = <<>>
             THEN ProcessCountries(run, countries_data, exchange_rates, multipliers,
                                   refresh_time, i + 1)
             ELSE LET defaults == Defaults(country_data, exchange_rates,
                                           multipliers[i], refresh_time)
                      saved == update_or_create([rows |-> run.rows, nextId |-> run.nextId],
                                                defaults.name, defaults)
                  IN  IF saved.error THEN [run EXCEPT !.error = TRUE]
                      ELSE ProcessCountries(
                               [rows |-> saved.rows,
                                nextId |-> saved.nextId,
                                created_count |-> run.created_count
                                                  + (IF saved.created THEN 1 ELSE 0),
                                updated_count |-> run.updated_count
                                                  + (IF saved.created THEN 0 ELSE 1),
                                written |-> Append(run.written,
                                                   [entry |-> i, row |-> Val(saved.row),
                                                    created |-> saved.created]),
                                error |-> FALSE],
                               countries_data, exchange_rates, multipliers,
                               refresh_time, i + 1)

\* CountryService.refresh_countries after both fetches returned (lines 139-196)
RefreshLoop(rows, next_id, countries_data, exchange_rates, multipliers, refresh_time) ==
    ProcessCountries([rows |-> rows, nextId |-> next_id, created_count |-> 0,
                      updated_count |-> 0, written |-> <<>>, error |-> FALSE],
                     countries_data, exchange_rates, multipliers, refresh_time, 1)

\* refresh_countries fetching the rates only after the loop has run
refresh_countries_LateRates(rows, next_id, countries_fetch, rates_fetch, multipliers, refresh_time) ==
    IF IsNull(countries_fetch)
    THEN [rows |-> rows, nextId |-> next_id, created_count |-> 0, updated_count |-> 0,
          written |-> <<>>, raised |-> "ExternalAPIError"]
    ELSE LET run == RefreshLoop(rows, next_id, Val(countries_fetch),
                                IF IsNull(rates_fetch) THEN [c \in {} |-> 0]
                                ELSE Val(rates_fetch),
                                multipliers, refresh_time)
         IN  [rows |-> run.rows, nextId |-> run.nextId,
              created_count |-> run.created_count, updated_count |-> run.updated_count,
              written |-> run.written,
              raised |-> IF IsNull(rates_fetch) THEN "ExternalAPIError"
                         ELSE IF run.error THEN "Exception" ELSE ""]

\* CountryService.refresh_countries: countries_fetch and rates_fetch are what
\* the two fetches returned, Null when the fetch raised ExternalAPIError.
\* raised names the exception that ended the call, "" when it returned.
refresh_countries(rows, next_id, countries_fetch, rates_fetch, multipliers, refresh_time) ==
    IF IsNull(countries_fetch) \/ IsNull(rates_fetch)
    THEN [rows |-> rows, nextId |-> next_id, created_count |-> 0, updated_count |-> 0,
          written |-> <<>>, raised |-> "ExternalAPIError"]
    ELSE LET run == RefreshLoop(rows, next_id, Val(countries_fetch), Val(rates_fetch),
                                multipliers, refresh_time)
         IN  [rows |-> run.rows, nextId |-> run.nextId,
              created_count |-> run.created_count, updated_count |-> run.updated_count,
              written |-> run.written,
              raised |-> IF run.error THEN "Exception" ELSE ""]

----------------------------------------------------------------------------
(* Query sets *)

RECURSIVE Perms(_)
Perms(S) ==
    IF S = {} THEN {<<>>}
    ELSE UNION {{<<x>> \o p : p \in Perms(S \ {x})} : x \in S}

\* the sequences a query over rows may return when the database must place a
\* before b whenever Before(a, b); rows the order does not separate come in
\* any order
Orderings(rows, Before(_, _)) ==
    {p \in Perms(rows) : \A i, j \in 1..Len(p) : i < j => ~Before(p[j], p[i])}

\* F(field).asc(nulls_last=True) on an optional number
AscNullsLast(a, b) == ~IsNull(a) /\ (IsNull(b) \/ Val(a) < Val(b))
\* F(field).desc(nulls_last=True)
DescNullsLast(a, b) == ~IsNull(a) /\ (IsNull(b) \/ Val(a) > Val(b))

CharOrd(c) ==
    CASE c = " " -> 32 [] c = "A" -> 65 [] c = "F" -> 70 [] c = "G" -> 71
      [] c = "H" -> 72 [] c = "N" -> 78 [] c = "S" -> 83 [] c = "Z" -> 90
      [] c = "a" -> 97 [] c = "f" -> 102 [] c = "g" -> 103 [] c = "h" -> 104
      [] c = "n" -> 110 [] c = "s" -> 115 [] c = "z" -> 122 [] OTHER -> 0

RECURSIVE TextLess(_, _)
TextLess(a, b) ==
    IF b = <<>> THEN FALSE
    ELSE IF a = <<>> THEN TRUE
    ELSE IF CharOrd(Head(a)) # CharOrd(Head(b)) THEN CharOrd(Head(a)) < CharOrd(Head(b))
    ELSE TextLess(Tail(a), Tail(b))

----------------------------------------------------------------------------
(* ImageGenerator *)

\* generate_summary_image: the file it saves over the old one; what it draws
\* of the rows is not modelled
generate_summary_image(rows) == Some("summary.png")

----------------------------------------------------------------------------
(* Views *)

Idle == [op |-> "none"]
\* the request workers that may run a refresh at the same time
Workers == {"a", "b"}
\* a worker that is running no refresh
NoRefresh == [pc |-> "idle"]
NoResponse == [status |-> 0, body |-> <<>>]

\* CountrySerializer: the JSON object of a row
CountrySerializer(row) ==
    [id |-> row.id, name |-> row.name, capital |-> row.capital, region |-> row.region,
     population |-> row.population, currency_code |-> row.currency_code,
     exchange_rate |-> row.exchange_rate, estimated_gdp |-> row.estimated_gdp,
     flag_url |-> row.flag_url, last_refreshed_at |-> row.last_refreshed_at]

\* the view reading the clock again for the response
RefreshResponse_ReadsClock(result, image_saved, refresh_time) ==
    IF result.raised = "ExternalAPIError"
    THEN [status |-> 503, body |-> [error |-> "External data source unavailable"]]
    ELSE IF result.raised # ""
    THEN [status |-> 500, body |-> [error |-> "Internal server error"]]
    ELSE [status |-> 200,
          body |-> [message |-> "Countries refreshed successfully",
                    total_countries |-> result.created_count + result.updated_count,
                    created |-> result.created_count,
                    updated |-> result.updated_count,
                    last_refreshed_at |-> refresh_time + 1]]

\* the view without the try/except around generate_summary_image
RefreshResponse_ImageFatal(result, image_saved, refresh_time) ==
    IF result.raised = "ExternalAPIError"
    THEN [status |-> 503, body |-> [error |-> "External data source unavailable"]]
    ELSE IF result.raised # "" \/ ~image_saved
    THEN [status |-> 500, body |-> [error |-> "Internal server error"]]
    ELSE [status |-> 200,
          body |-> [message |-> "Countries refreshed successfully",
                    total_countries |-> result.created_count + result.updated_count,
                    created |-> result.created_count,
                    updated |-> result.updated_count,
                    last_refreshed_at |-> refresh_time]]

\* the view reporting the two counts under each other's key
RefreshResponse_SwapsCounts(result, image_saved, refresh_time) ==
    IF result.raised = "ExternalAPIError"
    THEN [status |-> 503, body |-> [error |-> "External data source unavailable"]]
    ELSE IF result.raised # ""
    THEN [status |-> 500, body |-> [error |-> "Internal server error"]]
    ELSE [status |-> 200,
          body |-> [message |-> "Countries refreshed successfully",
                    total_countries |-> result.created_count + result.updated_count,
                    created |-> result.updated_count,
                    updated |-> result.created_count,
                    last_refreshed_at |-> refresh_time]]

\* the response of POST /countries/refresh to the outcome of the service call;
\* an exception of generate_summary_image (image_saved = FALSE) is printed
\* and swallowed
RefreshResponse(result, image_saved, refresh_time) ==
    IF result.raised = "ExternalAPIError"
    THEN [status |-> 503, body |-> [error |-> "External data source unavailable"]]
    ELSE IF result.raised # ""
    THEN [status |-> 500, body |-> [error |-> "Internal server error"]]
    ELSE [status |-> 200,
          body |-> [message |-> "Countries refreshed successfully",
                    total_countries |-> result.created_count + result.updated_count,
                    created |-> result.created_count,
                    updated |-> result.updated_count,
                    last_refreshed_at |-> refresh_time]]

\* the multipliers drawn during one run of the loop: entry i draws one only
\* when it has a rate
Draws(countries_data, exchange_rates) ==
    {m \in [1..Len(countries_data) -> Multipliers] :
        \A i \in 1..Len(countries_data) :
            ~DrawsMultiplier(countries_data[i], exchange_rates) => m[i] = 1000001}

\* a refresh request with what its collaborators did: the fetch that raised
\* ("" when both returned), the two bodies fetched when both returned, and
\* whether generate_summary_image saved the file
RefreshRequest(unavailable, countries_data, exchange_rates, image_saved) ==
    [op |-> "refresh", unavailable |-> unavailable, countries |-> countries_data,
     rates |-> exchange_rates, image_saved |-> image_saved]

\* refresh_countries (views.py) on the outcome of the service call: the table,
\* the response and the upserts made
RefreshView(result, image_saved, refresh_time) ==
    /\ store' = result.rows
    /\ nextId' = result.nextId
    /\ written' = result.written
    /\ response' = RefreshResponse(result, image_saved, refresh_time)
    /\ image' = IF image_saved THEN generate_summary_image(result.rows) ELSE image
    /\ UNCHANGED <<now, inflight>>

\* POST /countries/refresh when fetch_countries raises
RefreshCountriesUnavailable ==
    /\ request = Idle
    /\ RefreshView(refresh_countries(store, nextId, Null, Null, <<>>, now), FALSE, now)
    /\ request' = RefreshRequest("countries", <<>>, <<>>, FALSE)

\* POST /countries/refresh when fetch_exchange_rates raises
RefreshRatesUnavailable ==
    /\ request = Idle
    /\ \E countries_data \in CountryLists :
        /\ RefreshView(refresh_countries(store, nextId, Some(countries_data), Null,
                                         <<>>, now), FALSE, now)
        /\ request' = RefreshRequest("rates", <<>>, <<>>, FALSE)

\* POST /countries/refresh when both fetches return
RefreshFetched ==
    /\ request = Idle
    /\ \E countries_data \in CountryLists, exchange_rates \in RateTables :
        \E multipliers \in Draws(countries_data, exchange_rates) :
          LET result == refresh_countries(store, nextId, Some(countries_data),
                                          Some(exchange_rates), multipliers, now)
          IN  /\ result.nextId <= MaxId + 1
              /\ \E image_saved \in BOOLEAN :
                  \* generate_summary_image is called when the service call
                  \* returned; it saves the file or raises
                  /\ image_saved => result.raised = ""
                  /\ RefreshView(result, image_saved, now)
                  /\ request' = RefreshRequest("", countries_data, exchange_rates,
                                               image_saved)

\* query parameters of GET /countries: <<>> when the parameter is not given
RegionParams == {Null, Some(<<"A", "F">>)}
CurrencyParams == {Null, Some(Lower(NGN)), Some(<<" ">>)}
SortChoices ==
    {"gdp_asc", "gdp_desc", "population_asc", "population_desc", "name_asc", "name_desc"}
SortParams == {Null} \cup {Some(c) : c \in SortChoices \cup {"gdp"}}

\* CountryFilterSerializer.is_valid(): a CharField trims its value and refuses
\* a blank one, the ChoiceField refuses a value outside its choices
FilterIsValid(region, currency, sort) ==
    /\ IsNull(region) \/ Strip(Val(region)) # <<>>
    /\ IsNull(currency) \/ Strip(Val(currency)) # <<>>
    /\ IsNull(sort) \/ Val(sort) \in SortChoices

\* queryset.filter(region__iexact=...).filter(currency_code__iexact=...)
Filtered(rows, region, currency) ==
    {r \in rows :
        /\ IsNull(region) \/ (~IsNull(r.region) /\ IExact(Val(r.region), Strip(Val(region))))
        /\ IsNull(currency)
           \/ (~IsNull(r.currency_code)
               /\ IExact(Val(r.currency_code), Strip(Val(currency))))}

\* the order_by of lines 207-221: the sequences the ordered query may return
Sorted(rows, sort) ==
    LET gdp_desc(a, b) == DescNullsLast(a.estimated_gdp, b.estimated_gdp)
        gdp_asc(a, b) == AscNullsLast(a.estimated_gdp, b.estimated_gdp)
        population_desc(a, b) == a.population > b.population
        population_asc(a, b) == a.population < b.population
        name_desc(a, b) == TextLess(b.name, a.name)
        name_asc(a, b) == TextLess(a.name, b.name)
        unordered(a, b) == FALSE
    IN  IF IsNull(sort) THEN Orderings(rows, unordered)
        ELSE CASE Val(sort) = "gdp_desc" -> Orderings(rows, gdp_desc)
               [] Val(sort) = "gdp_asc" -> Orderings(rows, gdp_asc)
               [] Val(sort) = "population_desc" -> Orderings(rows, population_desc)
               [] Val(sort) = "population_asc" -> Orderings(rows, population_asc)
               [] Val(sort) = "name_desc" -> Orderings(rows, name_desc)
               [] Val(sort) = "name_asc" -> Orderings(rows, name_asc)
               [] OTHER -> Orderings(rows, unordered)

\* the responses GET /countries may give
ListResponses(rows, region, currency, sort) ==
    IF ~FilterIsValid(region, currency, sort)
    THEN {[status |-> 400, body |-> <<>>]}
    ELSE {[status |-> 200, body |-> [i \in 1..Len(p) |-> CountrySerializer(p[i])]]
          : p \in Sorted(Filtered(rows, region, currency), sort)}

\* GET /countries
list_countries ==
    /\ request = Idle
    /\ \E region \in RegionParams, currency \in CurrencyParams, sort \in SortParams :
        /\ request' = [op |-> "list", region |-> region, currency |-> currency,
                       sort |-> sort]
        /\ response' \in ListResponses(store, region, currency, sort)
    /\ UNCHANGED <<store, nextId, now, image, written, inflight>>

\* names asked for in GET and DELETE /countries/{name}
RequestNames == {Nigeria, Lower(Nigeria), <<"N", "G">>, Ghana}

\* country_detail looking the name up with name= in place of name__iexact=
country_detail_ExactName(rows, method, name) ==
    LET found == {r \in rows : r.name = name}
    IN  IF found = {}
        THEN [rows |-> rows, status |-> 404, body |-> [error |-> "Country not found"]]
        ELSE LET country == CHOOSE r \in found : TRUE
             IN  IF method = "GET"
                 THEN [rows |-> rows, status |-> 200, body |-> CountrySerializer(country)]
                 ELSE [rows |-> rows \ {country}, status |-> 200,
                       body |-> [message |-> country.name]]

\* country_detail answering a DELETE without country.delete()
country_detail_KeepsRow(rows, method, name) ==
    LET found == {r \in rows : IExact(r.name, name)}
    IN  IF found = {}
        THEN [rows |-> rows, status |-> 404, body |-> [error |-> "Country not found"]]
        ELSE LET country == CHOOSE r \in found : TRUE
             IN  IF method = "GET"
                 THEN [rows |-> rows, status |-> 200, body |-> CountrySerializer(country)]
                 ELSE [rows |-> rows, status |-> 200, body |-> [message |-> country.name]]

\* country_detail: the response and the table afterwards. get() raises
\* DoesNotExist when no row matches and MultipleObjectsReturned, which the
\* view does not catch, when several do.
country_detail(rows, method, name) ==
    LET found == ByName(rows, name)
    IN  IF found = {}
        THEN [rows |-> rows, status |-> 404, body |-> [error |-> "Country not found"]]
        ELSE IF Cardinality(found) > 1
        THEN [rows |-> rows, status |-> 500, body |-> [error |-> "Internal server error"]]
        ELSE LET country == CHOOSE r \in found : TRUE
             IN  IF method = "GET"
                 THEN [rows |-> rows, status |-> 200, body |-> CountrySerializer(country)]
                 ELSE [rows |-> rows \ {country}, status |-> 200,
                       body |-> [message |-> country.name]]

\* GET /countries/{name}
GetCountry ==
    /\ request = Idle
    /\ \E name \in RequestNames :
        LET answer == country_detail(store, "GET", name)
        IN  /\ request' = [op |-> "get", name |-> name]
            /\ response' = [status |-> answer.status, body |-> answer.body]
            /\ store' = answer.rows
    /\ UNCHANGED <<nextId, now, image, written, inflight>>

\* DELETE /countries/{name}
DeleteCountry ==
    /\ request = Idle
    /\ \E name \in RequestNames :
        LET answer == country_detail(store, "DELETE", name)
        IN  /\ request' = [op |-> "delete", name |-> name]
            /\ response' = [status |-> answer.status, body |-> answer.body]
            /\ store' = answer.rows
    /\ UNCHANGED <<nextId, now, image, written, inflight>>

\* the response is sent and the worker waits for the next request
Respond ==
    /\ request # Idle
    /\ request' = Idle
    /\ response' = NoResponse
    /\ written' = <<>>
    /\ UNCHANGED <<store, nextId, now, image, inflight>>

\* time passes between two requests
Tick ==
    /\ request = Idle
    /\ now < MaxTime
    /\ now' = now + 1
    /\ UNCHANGED <<store, nextId, image, request, response, written, inflight>>

----------------------------------------------------------------------------
(* The service *)

Init ==
    /\ store = {}
    /\ nextId = 1
    /\ now = 0
    /\ image = Null
    /\ request = Idle
    /\ response = NoResponse
    /\ written = <<>>
    /\ inflight = [w \in Workers |-> NoRefresh]

Next ==
    \/ RefreshCountriesUnavailable
    \/ RefreshRatesUnavailable
    \/ RefreshFetched
    \/ list_countries
    \/ GetCountry
    \/ DeleteCountry
    \/ Respond
    \/ Tick

Spec == Init /\ [][Next]_vars

----------------------------------------------------------------------------
(* Two refreshes at once: each worker runs the loop of refresh_countries one *)
(* entry at a time, and the upserts of the two loops interleave. One         *)
(* update_or_create call is one step: the store contract makes the upsert of *)
(* a row atomic.                                                             *)

\* a worker after both fetches returned and refresh_time was read (lines
\* 136-142): the entries its loop has still to process, and whether it has
\* upserted one yet
StartedRefresh(countries_data, exchange_rates, refresh_time) ==
    [pc |-> "loop", remaining |-> countries_data, rates |-> exchange_rates,
     refresh_time |-> refresh_time, upserted |-> FALSE]

\* the entries the loop upserts: those with a name that is not blank
NamedEntries ==
    {e \in CountryEntries :
        "name" \in DOMAIN e /\ ~IsNull(e.name) /\ Strip(Val(e.name)) # <<>>}

\* the country lists fetched by refreshes that run at the same time
ConcurrentLists == SeqsUpTo(NamedEntries, MaxBatch)

\* POST /countries/refresh reaches the loop on worker w
BeginRefresh(w) ==
    /\ inflight[w] = NoRefresh
    /\ \E countries_data \in ConcurrentLists, exchange_rates \in RateTables :
        inflight' = [inflight EXCEPT
                        ![w] = StartedRefresh(countries_data, exchange_rates, now)]
    /\ UNCHANGED <<store, nextId, now, image, request, response, written>>

\* one iteration of the loop (lines 145-189) on worker w, on the table as the
\* other worker's upserts have left it; an exception ends the refresh with
\* what was written so far
UpsertNext(w) ==
    /\ inflight[w].pc = "loop"
    /\ inflight[w].remaining # <<>>
    /\ \E multiplier \in Multipliers :
        LET mine == inflight[w]
            country_data == Head(mine.remaining)
            run == RefreshLoop(store, nextId, <<country_data>>, mine.rates,
                               <<multiplier>>, mine.refresh_time)
        IN  /\ DrawsMultiplier(country_data, mine.rates) \/ multiplier = 1000001
            /\ run.nextId <= MaxId + 1
            /\ store' = run.rows
            /\ nextId' = run.nextId
            /\ inflight' = [inflight EXCEPT
                               ![w] = IF run.error THEN NoRefresh
                                      ELSE [mine EXCEPT
                                               !.remaining = Tail(mine.remaining),
                                               !.upserted = mine.upserted
                                                            \/ run.written # <<>>]]
    /\ UNCHANGED <<now, image, request, response, written>>

\* the loop of worker w is over: the view generates the image, or fails to,
\* and answers
FinishRefresh(w) ==
    /\ inflight[w].pc = "loop"
    /\ inflight[w].remaining = <<>>
    /\ \E image_saved \in BOOLEAN :
        image' = IF image_saved THEN generate_summary_image(store) ELSE image
    /\ inflight' = [inflight EXCEPT ![w] = NoRefresh]
    /\ UNCHANGED <<store, nextId, now, request, response, written>>

\* DELETE /countries/{name} handled while refreshes are running
DeleteMeanwhile ==
    /\ \E name \in RequestNames :
        store' = country_detail(store, "DELETE", name).rows
    /\ UNCHANGED <<nextId, now, image, request, response, written, inflight>>

ConcurrentNext ==
    \/ \E w \in Workers : BeginRefresh(w)
    \/ \E w \in Workers : UpsertNext(w)
    \/ \E w \in Workers : FinishRefresh(w)
    \/ DeleteMeanwhile

ConcurrentSpec == Init /\ [][ConcurrentNext]_vars

----------------------------------------------------------------------------
(* Properties *)

IsRefresh == request.op = "refresh"
\* the last request was a refresh whose two fetches returned
Fetched == IsRefresh /\ request.unavailable = ""

PaddedLowerNigeria == <<" ">> \o Lower(Nigeria) \o <<" ">>

\* the fetched country list names this text in some entry
Lists(countries_data, text) ==
    \E i \in 1..Len(countries_data) :
        /\ "name" \in DOMAIN countries_data[i]
        /\ countries_data[i].name = Some(text)

\* C1: after any sequence of refreshes and deletes handled one at a time, no
\* two stored rows have names that are equal ignoring case; a refresh whose
\* list holds the name in two casings leaves exactly one row for it.
NameUniqueIgnoringCase ==
    /\ \A a, b \in store : IExact(a.name, b.name) => a = b
    /\ (/\ Fetched
        /\ response.status = 200
        /\ Lists(request.countries, Nigeria)
        /\ Lists(request.countries, PaddedLowerNigeria))
       => Cardinality({r \in store : Lower(r.name) = Lower(Nigeria)}) = 1

\* a refresh of a list with both casings answered 200 while another country
\* is stored too
BothCasingsRefreshed ==
    /\ Fetched
    /\ response.status = 200
    /\ Lists(request.countries, Nigeria)
    /\ Lists(request.countries, PaddedLowerNigeria)
    /\ Cardinality(store) = 2

\* a row without a usable GDP: none was computable (stored as 0) or it is null
NoUsableGdp(country) ==
    \/ IsNull(country.estimated_gdp)
    \/ IsNull(country.exchange_rate) /\ Val(country.estimated_gdp) = 0

\* in a listing, every row without a usable GDP comes after every row with one
NoGdpAtTail(listing) ==
    \A i, j \in 1..Len(listing) :
        NoUsableGdp(listing[i]) /\ ~NoUsableGdp(listing[j]) => j < i

\* the rows of a listing that have a usable GDP, in listing order
RECURSIVE WithGdp(_)
WithGdp(listing) ==
    IF listing = <<>> THEN <<>>
    ELSE IF NoUsableGdp(Head(listing)) THEN WithGdp(Tail(listing))
    ELSE <<Head(listing)>> \o WithGdp(Tail(listing))

Reversed(s) == [i \in 1..Len(s) |-> s[Len(s) + 1 - i]]

\* C2: for every stored dataset, list(sort=gdp_asc) and list(sort=gdp_desc)
\* both place the rows with no usable GDP after all rows that have one, and
\* the rows that have a GDP come in exactly reversed order in the two listings.
GdpSortsKeepNoGdpLast ==
    \A asc \in ListResponses(store, Null, Null, Some("gdp_asc")),
       desc \in ListResponses(store, Null, Null, Some("gdp_desc")) :
        /\ NoGdpAtTail(asc.body)
        /\ NoGdpAtTail(desc.body)
        /\ WithGdp(asc.body) = Reversed(WithGdp(desc.body))

\* C3: if the country fetch or the exchange-rate fetch fails, refresh answers
\* 503 and the table is as it was before the call, whichever fetch failed.
FetchFailureWritesNothing ==
    [][(request'.op = "refresh" /\ request # request' /\ request'.unavailable # "")
       => (response'.status = 503 /\ store' = store /\ nextId' = nextId)]_vars

\* the rate fetch failed after the country list was fetched, with two
\* countries already stored
RatesFetchFailed ==
    /\ IsRefresh
    /\ request.unavailable = "rates"
    /\ response.status = 503
    /\ Cardinality(store) = 2

\* the rate the table holds for the entry's first currency code: <<>> when
\* the currency array is empty or missing, its first element has no code, the
\* code is not in the table or its rate is zero
KnownRate(country_data, exchange_rates) ==
    IF "currencies" \notin DOMAIN country_data THEN Null
    ELSE IF country_data.currencies = <<>> THEN Null
    ELSE IF "code" \notin DOMAIN country_data.currencies[1] THEN Null
    ELSE IF country_data.currencies[1].code \notin DOMAIN exchange_rates THEN Null
    ELSE IF exchange_rates[country_data.currencies[1].code] = 0 THEN Null
    ELSE Some(exchange_rates[country_data.currencies[1].code])

\* the entry of the fetched list that upsert w was made from
EntryOf(w) == request.countries[w.entry]

\* cents lies in [population * 1000 / rate, population * 2000 / rate] dollars,
\* widened by slack/2 cents on both sides
GdpWithin(cents, population, rate, slack) ==
    /\ 2 * cents * rate >= 2 * population * 1000 * 100 - slack * rate
    /\ 2 * cents * rate <= 2 * population * 2000 * 100 + slack * rate

RateAndGdp(w, slack) ==
    LET rate == KnownRate(EntryOf(w), request.rates)
    IN  IF ~IsNull(rate)
        THEN /\ w.row.exchange_rate = rate
             /\ ~IsNull(w.row.estimated_gdp)
             /\ GdpWithin(Val(w.row.estimated_gdp), w.row.population, Val(rate), slack)
        ELSE /\ IsNull(w.row.exchange_rate)
             /\ w.row.estimated_gdp = Some(0)

\* C4 as claimed: for every row written by refresh, a non-zero rate of the
\* entry's first currency code is the row's exchange_rate and estimated_gdp
\* lies between population*1000/rate and population*2000/rate; otherwise
\* exchange_rate is absent and estimated_gdp is exactly 0.
GdpBetweenBounds ==
    Fetched => \A i \in 1..Len(written) : RateAndGdp(written[i], 0)

\* C4 as amended: the same, with estimated_gdp the estimate rounded to the
\* cent, so that it lies within half a cent of the interval.
GdpBetweenBoundsToTheCent ==
    Fetched => \A i \in 1..Len(written) : RateAndGdp(written[i], 1)

\* one refresh wrote a row with a rate and a row without
WroteWithAndWithoutRate ==
    /\ Fetched
    /\ \E i, j \in 1..Len(written) :
        /\ ~IsNull(written[i].row.exchange_rate)
        /\ Val(written[i].row.estimated_gdp) > 0
        /\ IsNull(written[j].row.exchange_rate)

\* C5: after a successful delete(name), and until a refresh re-creates the
\* row, every get and every delete with a name equal to it ignoring case
\* answers 404; a delete that answers 404 leaves the table unchanged.
DeletedStaysNotFound ==
    /\ [](request.op = "delete" /\ response.status = 200
          => \A name \in RequestNames :
                Lower(name) = Lower(request.name)
                => /\ country_detail(store, "GET", name).status = 404
                   /\ country_detail(store, "DELETE", name).status = 404)
    /\ [][\A name \in RequestNames :
            /\ country_detail(store, "GET", name).status = 404
            /\ request'.op # "refresh"
            => /\ country_detail(store', "GET", name).status = 404
               /\ country_detail(store', "DELETE", name).status = 404]_vars
    /\ [][request'.op = "delete" /\ request # request' /\ response'.status = 404
          => store' = store]_vars

\* a delete by another casing than the stored one succeeded
DeletedByOtherCasing ==
    /\ request.op = "delete"
    /\ request.name = <<"N", "G">>
    /\ response.status = 200
    /\ response.body.message # request.name
    /\ store # {}

\* C6: two request names that differ only in letter case get the same
\* outcome in the same table state: the same country payload when a row with
\* that name ignoring case exists, 404 for both when none does.
GetIgnoresCase ==
    \A a, b \in RequestNames :
        Lower(a) = Lower(b)
        => LET got_a == country_detail(store, "GET", a)
               got_b == country_detail(store, "GET", b)
           IN  /\ got_a.status = got_b.status
               /\ got_a.body = got_b.body
               /\ got_a.status = IF \E r \in store : Lower(r.name) = Lower(a)
                                 THEN 200 ELSE 404

\* a get by a casing that is not the stored one answered with the row
GotByOtherCasing ==
    /\ request.op = "get"
    /\ request.name = <<"N", "G">>
    /\ response.status = 200
    /\ response.body.name = Lower(Nigeria)

\* the rows of the table with the ids the last refresh upserted
Touched == {r \in store : \E i \in 1..Len(written) : written[i].row.id = r.id}

\* C7: every row created or updated by one refresh carries the same
\* last_refreshed_at, the one returned in that refresh's response; nothing
\* but a refresh upsert changes a row's last_refreshed_at.
OneTimestampPerRefresh ==
    /\ [](IsRefresh
          => /\ \A i \in 1..Len(written) : written[i].row.last_refreshed_at = now
             /\ \A r \in Touched : r.last_refreshed_at = now
             /\ response.status = 200 => response.body.last_refreshed_at = now)
    /\ [][\A a \in store, b \in store' :
            a.id = b.id /\ a.last_refreshed_at # b.last_refreshed_at
            => /\ request'.op = "refresh"
               /\ \E i \in 1..Len(written') : written'[i].row.id = a.id]_vars

\* a later refresh updated two rows and left their old timestamps behind
RefreshUpdatedTwoRows ==
    /\ Fetched
    /\ response.status = 200
    /\ response.body.updated = 2
    /\ Cardinality(Touched) = 2
    /\ now = 1

\* no entry of the list has a JSON null for a name
AllNamed(countries_data) ==
    \A i \in 1..Len(countries_data) :
        "name" \in DOMAIN countries_data[i] => ~IsNull(countries_data[i].name)

\* C8: when both fetches and all upserts of a refresh succeed but
\* summary-image generation fails, the refresh still answers 200 with its
\* counts and timestamp, and the rows it upserted remain in the table.
ImageFailureIsSwallowed ==
    (Fetched /\ AllNamed(request.countries) /\ ~request.image_saved)
    => /\ response.status = 200
       /\ response.body.total_countries = Len(written)
       /\ response.body.created + response.body.updated = Len(written)
       /\ response.body.last_refreshed_at = now
       /\ \A i \in 1..Len(written) :
            \/ written[i].row \in store
            \/ \E j \in 1..Len(written) :
                /\ j > i
                /\ written[j].row.id = written[i].row.id
                /\ written[j].row \in store

\* a refresh wrote rows while the image could not be generated
RefreshedWithoutImage ==
    /\ Fetched
    /\ ~request.image_saved
    /\ response.status = 200
    /\ Len(written) = 2
    /\ image = Null

\* what C9 lets a second refresh change is left out
Identity(rows) ==
    {[id |-> r.id, name |-> r.name, capital |-> r.capital, region |-> r.region,
      population |-> r.population, currency_code |-> r.currency_code,
      exchange_rate |-> r.exchange_rate, flag_url |-> r.flag_url] : r \in rows}

\* C9: running refresh a second time with unchanged upstream countries and
\* rates leaves the set of stored rows and each row's name, capital, region,
\* population, currency_code, exchange_rate and flag_url unchanged; only
\* last_refreshed_at (the new batch timestamp) and estimated_gdp may differ.
RefreshAgainKeepsIdentity ==
    (Fetched /\ response.status = 200)
    => \A t \in now..MaxTime,
          multipliers \in Draws(request.countries, request.rates) :
        LET again == refresh_countries(store, nextId, Some(request.countries),
                                       Some(request.rates), multipliers, t)
            ids == {again.written[i].row.id : i \in 1..Len(again.written)}
        IN  /\ again.raised = ""
            /\ Identity(again.rows) = Identity(store)
            /\ \A r \in again.rows :
                IF r.id \in ids THEN r.last_refreshed_at = t ELSE r \in store

\* a refresh of two countries, one of them with a rate, answered 200 at a
\* time when a second run can carry a later timestamp
RefreshedTwoCountries ==
    /\ Fetched
    /\ response.status = 200
    /\ Cardinality(Touched) = 2
    /\ Cardinality(store) = 2
    /\ \E r \in store : ~IsNull(r.exchange_rate)
    /\ now < MaxTime

\* the row an upsert of this entry must leave, with nothing of an older row
Fresh(id, country_data, exchange_rates, refresh_time, estimated_gdp) ==
    [id |-> id,
     name |-> Strip(Val(country_data.name)),
     capital |-> IF "capital" \in DOMAIN country_data THEN country_data.capital ELSE Null,
     region |-> IF "region" \in DOMAIN country_data THEN country_data.region ELSE Null,
     population |-> IF "population" \in DOMAIN country_data
                    THEN country_data.population ELSE 0,
     currency_code |-> IF /\ "currencies" \in DOMAIN country_data
                          /\ country_data.currencies # <<>>
                          /\ "code" \in DOMAIN country_data.currencies[1]
                       THEN Some(country_data.currencies[1].code) ELSE Null,
     exchange_rate |-> KnownRate(country_data, exchange_rates),
     estimated_gdp |-> IF IsNull(KnownRate(country_data, exchange_rates))
                       THEN Some(0) ELSE estimated_gdp,
     flag_url |-> IF "flag" \in DOMAIN country_data THEN country_data.flag ELSE Null,
     last_refreshed_at |-> refresh_time]

\* C10: when a refresh upsert matches an existing row by case-insensitive
\* name, every field of the row afterwards equals the freshly fetched value,
\* nothing is carried over: the name shows the casing written last, and a
\* rate or currency no longer known leaves exchange_rate absent and
\* estimated_gdp 0.
UpsertOverwritesEveryField ==
    Fetched
    => \A i \in 1..Len(written) :
        ~written[i].created
        => /\ written[i].row = Fresh(written[i].row.id, EntryOf(written[i]),
                                     request.rates, now,
                                     written[i].row.estimated_gdp)
           /\ (\A j \in 1..Len(written) : j > i => written[j].row.id # written[i].row.id)
              => written[i].row \in store

\* one refresh wrote a row with a rate and then, matching it by the other
\* casing, overwrote it from an entry without a currency
CasingAndRateOverwritten ==
    /\ Fetched
    /\ Len(written) = 2
    /\ written[1].row.id = written[2].row.id
    /\ written[1].row.name = Nigeria
    /\ ~IsNull(written[1].row.exchange_rate)
    /\ ~written[2].created
    /\ written[2].row.name = Lower(Nigeria)
    /\ written[2].row \in store

\* the loop skips this entry: its name is missing or blank once stripped
SkippedEntry(country_data) ==
    \/ "name" \notin DOMAIN country_data
    \/ ~IsNull(country_data.name) /\ Strip(Val(country_data.name)) = <<>>

\* C11: once both fetches have succeeded, refresh never fails part-way through
\* the loop: every entry of the list is either skipped (empty name) or
\* upserted and the refresh answers 200, so no refresh ends with only a prefix
\* of its batch written.
RefreshNeverStopsMidLoop ==
    Fetched
    => /\ response.status = 200
       /\ \A i \in 1..Len(request.countries) :
            \/ SkippedEntry(request.countries[i])
            \/ \E k \in 1..Len(written) : written[k].entry = i

\* the step is a refresh that answered 200
RefreshSucceeds ==
    /\ request'.op = "refresh"
    /\ request # request'
    /\ response'.status = 200

Ids(rows) == {r.id : r \in rows}
WrittenIds(w) == {w[k].row.id : k \in 1..Len(w)}

\* the counts of the response are the numbers of rows new in the table, of
\* rows of the old table the batch overwrote, and of rows the batch touched
CountsAreRowCounts(before, after, w, body) ==
    /\ body.created = Cardinality(Ids(after) \ Ids(before))
    /\ body.updated = Cardinality(Ids(before) \cap WrittenIds(w))
    /\ body.total_countries = body.created + body.updated
    /\ body.total_countries = Cardinality(WrittenIds(w))

\* upsert k of the batch made a row: its row was neither in the table before
\* the refresh nor written earlier in the batch
MadeRow(before, w, k) ==
    /\ w[k].row.id \notin Ids(before)
    /\ \A j \in 1..Len(w) : j < k => w[j].row.id # w[k].row.id

\* C12 as claimed: in the result of a successful refresh, created is the
\* number of rows that did not exist before the refresh and exist after it,
\* updated is the number of rows that existed before and were overwritten by
\* it, and total_countries = created + updated is the number of rows the
\* batch touched.
CountsRowsOfBatch ==
    [][RefreshSucceeds
       => CountsAreRowCounts(store, store', written', response'.body)]_vars

\* C12 as amended: created is the number of upserts of the batch that made a
\* row and updated the number of upserts that matched a row, whether the row
\* was in the table before the refresh or was written earlier in the same
\* batch; total_countries = created + updated is the number of entries that
\* were not skipped. When no row is upserted twice in the batch these are the
\* row counts of the claim.
CountsUpsertsOfBatch ==
    [][RefreshSucceeds
       => LET w == written'
              body == response'.body
              countries_data == request'.countries
          IN  /\ body.created
                 = Cardinality({k \in 1..Len(w) : MadeRow(store, w, k)})
              /\ body.updated
                 = Cardinality({k \in 1..Len(w) : ~MadeRow(store, w, k)})
              /\ body.total_countries = body.created + body.updated
              /\ body.total_countries
                 = Cardinality({i \in 1..Len(countries_data) :
                                   ~SkippedEntry(countries_data[i])})
              /\ Cardinality(WrittenIds(w)) = Len(w)
                 => CountsAreRowCounts(store, store', w, body)]_vars

\* a refresh of one name in two spellings, into a table that holds another
\* country, counted one created and one updated for a single new row
CountedOneRowTwice ==
    /\ Fetched
    /\ response.status = 200
    /\ response.body.created = 1
    /\ response.body.updated = 1
    /\ Cardinality(WrittenIds(written)) = 1
    /\ Cardinality(store) = 2
    /\ \E r \in store : r.id \notin WrittenIds(written) /\ r.id < written[1].row.id

====
